---- MODULE Spec2Model ----
(***************************************************************************)
(* text2qlab, text_cues.py: a transcript is read line by line, speaker    *)
(* labels are detected and stripped, each line is split into sentences,   *)
(* the sentences pending for one speaker are grouped, wrapped and sliced  *)
(* into cues, and main hands every cue to QLab and then creates the fade  *)
(* groups.                                                                 *)
(*                                                                         *)
(* Text is a sequence of one-character strings, so that strip, the two    *)
(* regular expressions, " ".join, textwrap.wrap and "\n".join are         *)
(* computed character by character as Python computes them.               *)
(***************************************************************************)
EXTENDS Integers, Sequences, FiniteSets, TLC

(***************************************************************************)
(* Characters.  The only white space of the modelled inputs is the blank; *)
(* "\n" appears only where "\n".join puts it.                              *)
(***************************************************************************)
Whitespace == {" ", "\n"}

\* [A-Z0-9 ] of speaker_pattern
LabelChars == {"A", "B", "2", " "}

\* [.!?] of sentence_split_pattern
Terminators == {".", "!", "?"}

\* [:：\s] of the re.sub that cleans the label
LabelTail == {":"} \cup Whitespace

Min(a, b) == IF a <= b THEN a ELSE b

\* s[from:] of Python, with a 0-based from
DropFirst(s, n) == SubSeq(s, n + 1, Len(s))

RECURSIVE LStrip(_)
LStrip(s) ==
    IF s # <<>> /\ Head(s) \in Whitespace THEN LStrip(Tail(s)) ELSE s

RECURSIVE RStrip(_)
RStrip(s) ==
    IF s # <<>> /\ s[Len(s)] \in Whitespace
    THEN RStrip(SubSeq(s, 1, Len(s) - 1))
    ELSE s

\* str.strip()
Strip(s) == RStrip(LStrip(s))

\* the length of the longest prefix of s made of characters of set
RECURSIVE PrefixLen(_, _)
PrefixLen(s, set) ==
    IF s # <<>> /\ Head(s) \in set THEN 1 + PrefixLen(Tail(s), set) ELSE 0

\* speaker_pattern.match(line): the end of the match of ^[A-Z0-9 ]+:\s*,
\* or 0 when the line does not match (a match is never empty)
SpeakerMatchEnd(line) ==
    LET k == PrefixLen(line, LabelChars)
    IN  IF k >= 1 /\ k < Len(line) /\ line[k + 1] = ":"
        THEN k + 1 + PrefixLen(DropFirst(line, k + 1), Whitespace)
        ELSE 0

\* re.sub(r'[:：\s]+$', '', group)
RECURSIVE StripLabelTail(_)
StripLabelTail(s) ==
    IF s # <<>> /\ s[Len(s)] \in LabelTail
    THEN StripLabelTail(SubSeq(s, 1, Len(s) - 1))
    ELSE s

\* does (?<!\.)[.!?](?!\.)\s+ match at position i of s?
BoundaryAt(s, i) ==
    /\ s[i] \in Terminators
    /\ (i > 1 => s[i - 1] # ".")
    /\ i < Len(s)
    /\ s[i + 1] \in Whitespace

\* sentence_split_pattern.split(s): the pieces between the matches; a match
\* (the terminator and the white space after it) is not part of any piece
RECURSIVE SplitFrom(_, _, _)
SplitFrom(s, start, i) ==
    IF i > Len(s) THEN << SubSeq(s, start, Len(s)) >>
    ELSE IF BoundaryAt(s, i)
         THEN LET e == i + PrefixLen(DropFirst(s, i), Whitespace)
              IN  << SubSeq(s, start, i - 1) >> \o SplitFrom(s, e + 1, e + 1)
         ELSE SplitFrom(s, start, i + 1)

SentenceSplit(s) == SplitFrom(s, 1, 1)

\* sep.join(parts)
RECURSIVE Join(_, _)
Join(parts, sep) ==
    IF parts = <<>> THEN <<>>
    ELSE IF Len(parts) = 1 THEN parts[1]
    ELSE parts[1] \o sep \o Join(Tail(parts), sep)

(***************************************************************************)
(* textwrap.wrap(text, width, break_long_words=False,                      *)
(* break_on_hyphens=False), with the defaults replace_whitespace and      *)
(* drop_whitespace: white space becomes blanks, the text is cut into      *)
(* chunks that are alternately words and runs of blanks, and the chunks   *)
(* are packed greedily into lines.                                         *)
(***************************************************************************)
MungeWhitespace(text) ==
    [i \in 1..Len(text) |-> IF text[i] \in Whitespace THEN " " ELSE text[i]]

IsBlank(chunk) == \A i \in 1..Len(chunk) : chunk[i] = " "

\* the length of the longest prefix of s without a blank
RECURSIVE WordLen(_)
WordLen(s) ==
    IF s # <<>> /\ Head(s) # " " THEN 1 + WordLen(Tail(s)) ELSE 0

\* wordsep_simple_re.split(text) without the empty chunks
RECURSIVE SplitChunks(_)
SplitChunks(text) ==
    IF text = <<>> THEN <<>>
    ELSE LET k == IF Head(text) = " " THEN PrefixLen(text, {" "})
                  ELSE WordLen(text)
         IN  << SubSeq(text, 1, k) >> \o SplitChunks(DropFirst(text, k))

\* the inner loop of _wrap_chunks: how many of the chunks fit on the line
RECURSIVE FitCount(_, _, _)
FitCount(chunks, cur_len, width) ==
    IF chunks # <<>> /\ cur_len + Len(Head(chunks)) <= width
    THEN 1 + FitCount(Tail(chunks), cur_len + Len(Head(chunks)), width)
    ELSE 0

\* the outer loop of _wrap_chunks; lines are the lines made so far
RECURSIVE WrapChunks(_, _, _)
WrapChunks(chunks, width, lines) ==
    IF chunks = <<>> THEN lines
    ELSE LET \* a run of blanks at the start of a line is dropped, except
             \* before the first line
             cs == IF IsBlank(Head(chunks)) /\ lines # <<>>
                   THEN Tail(chunks) ELSE chunks
             n == FitCount(cs, 0, width)
             \* _handle_long_word with break_long_words=False: a chunk wider
             \* than the line goes on a line of its own, unbroken
             long == n = 0 /\ cs # <<>> /\ Len(cs[1]) > width
             taken == IF long THEN 1 ELSE n
             cur == SubSeq(cs, 1, taken)
             \* a run of blanks at the end of the line is dropped
             kept == IF cur # <<>> /\ IsBlank(cur[Len(cur)])
                     THEN SubSeq(cur, 1, Len(cur) - 1) ELSE cur
             rest == DropFirst(cs, taken)
         IN  WrapChunks(rest, width,
                        IF kept # <<>> THEN Append(lines, Join(kept, <<>>))
                        ELSE lines)

Wrap(text, width) == WrapChunks(SplitChunks(MungeWhitespace(text)), width, <<>>)

(***************************************************************************)
(* build_chunks_from_sentences: the sentences are taken in groups of      *)
(* max_sentences_per_chunk, each group is joined with blanks and wrapped, *)
(* and the wrapped lines are cut into cues of max_lines_per_chunk lines.  *)
(* A chunk is recorded with the index i at which its group starts.        *)
(***************************************************************************)
\* SliceLines with cues one line too long: lines[j:j + max_lines + 1]
RECURSIVE SliceLines_OneMore(_, _, _, _)
SliceLines_OneMore(lines, j, max_lines, grp) ==
    IF j >= Len(lines) THEN <<>>
    ELSE << [text |-> Join(SubSeq(lines, j + 1,
                                  Min(j + max_lines + 1, Len(lines))),
                           <<"\n">>),
             grp  |-> grp] >>
         \o SliceLines_OneMore(lines, j + max_lines + 1, max_lines, grp)

\* lines 204-205
RECURSIVE SliceLines(_, _, _, _)
SliceLines(lines, j, max_lines, grp) ==
    IF j >= Len(lines) THEN <<>>
    ELSE << [text |-> Join(SubSeq(lines, j + 1, Min(j + max_lines, Len(lines))),
                           <<"\n">>),
             grp  |-> grp] >>
         \o SliceLines(lines, j + max_lines, max_lines, grp)

\* BuildFrom with a group one sentence too long:
\* sentences[i:i + max_sentences + 1]
RECURSIVE BuildFrom_OneMore(_, _, _, _, _)
BuildFrom_OneMore(sentences, i, max_sentences, max_lines, max_chars) ==
    IF i >= Len(sentences) THEN <<>>
    ELSE LET chunk_sentences ==
                 SubSeq(sentences, i + 1,
                        Min(i + max_sentences + 1, Len(sentences)))
             chunk_text == Join(chunk_sentences, <<" ">>)
             lines == Wrap(chunk_text, max_chars)
         IN  SliceLines(lines, 0, max_lines, i)
             \o BuildFrom_OneMore(sentences, i + max_sentences,
                                  max_sentences, max_lines, max_chars)

\* lines 190-205
RECURSIVE BuildFrom(_, _, _, _, _)
BuildFrom(sentences, i, max_sentences, max_lines, max_chars) ==
    IF i >= Len(sentences) THEN <<>>
    ELSE LET chunk_sentences ==
                 SubSeq(sentences, i + 1, Min(i + max_sentences, Len(sentences)))
             chunk_text == Join(chunk_sentences, <<" ">>)
             lines == Wrap(chunk_text, max_chars)
         IN  SliceLines(lines, 0, max_lines, i)
             \o BuildFrom(sentences, i + max_sentences,
                          max_sentences, max_lines, max_chars)

build_chunks_from_sentences(sentences, max_sentences, max_lines, max_chars) ==
    BuildFrom(sentences, 0, max_sentences, max_lines, max_chars)

(***************************************************************************)
(* Configuration of text_cues.py                                           *)
(***************************************************************************)
MAX_SENTENCES_PER_CHUNK == 2
MAX_LINES_PER_CHUNK == 4
MAX_CHARS_PER_LINE == 55

(***************************************************************************)
(* Inputs.  A file is a sequence of at most MaxFileLines lines drawn from *)
(* InputLines: a blank line, a label-only line, labelled and unlabelled   *)
(* text, one and several sentences on a line, text without a terminator,  *)
(* an ellipsis, white space around the line and the label, and words      *)
(* wider than the narrowest widths.                                        *)
(***************************************************************************)
MaxFileLines == 3

InputLines ==
    { << " " >>,
      << "A", ":" >>,
      << "B", ":", " ", "b", "." >>,
      << "b", ".", " ", "c" >>,
      << "b", "b" >>,
      << "c", " ", "d", "?" >>,
      << "b", ".", ".", " ", "c" >>,
      << " ", "A", " ", ":", " ", "c", "!", " ", "d" >>,
      << "b", "b", "b", "b", " ", "c" >> }

RECURSIVE SeqsUpTo(_, _)
SeqsUpTo(S, n) ==
    IF n = 0 THEN { <<>> }
    ELSE LET shorter == SeqsUpTo(S, n - 1)
         IN  shorter \cup { Append(f, x) : f \in shorter, x \in S }

Files == SeqsUpTo(InputLines, MaxFileLines)

\* the arguments of generate_chunks_from_file: what main passes, and the
\* small limits of a direct caller
DefaultArgs == [max_sentences |-> MAX_SENTENCES_PER_CHUNK,
                max_lines     |-> MAX_LINES_PER_CHUNK,
                max_chars     |-> MAX_CHARS_PER_LINE]

DirectArgs == [max_sentences : {1, 2}, max_lines : {1, 2}, max_chars : {1, 3}]

\* current_speaker = None; a detected label is never empty
None == <<>>

VARIABLES
    caller,            \* "main": python text_cues.py; "direct": a caller of
                       \* generate_chunks_from_file that iterates over it
    argv_given,        \* len(sys.argv) >= 2
    file_exists,       \* os.path.isfile(text_file)
    file,              \* the lines of the input file
    args,              \* max_sentences_per_chunk, max_lines_per_chunk,
                       \* max_chars_per_line of the generator
    main_pc,           \* where the consumer of the cue stream is
    i,                 \* the loop variable i of main
    i_bound,           \* whether i has been assigned
    calls,             \* the external operations invoked, in order
    stdout,            \* what main has printed
    exit_code,         \* the argument of sys.exit, -1 while running
    gen_pc,            \* where the generator is suspended
    opened,            \* whether the generator has opened the file
    pos,               \* the number of lines read from the file
    line,              \* the local variable line of the generator
    current_sentences,
    current_speaker,
    queue,             \* the chunks of the build_chunks_from_sentences call
                       \* the generator is iterating over
    qi,                \* how many of them have been yielded
    handoff,           \* the value yielded to the consumer and not yet taken
    yielded,           \* history: every (chunk, speaker) yielded, with the
                       \* group of sentences and the file lines it came from
    pending_lines,     \* history: the file line of each pending sentence
    sentence_log       \* history: every sentence appended, with its file line

vars == << caller, argv_given, file_exists, file, args, main_pc, i, i_bound,
           calls, stdout, exit_code, gen_pc, opened, pos, line,
           current_sentences, current_speaker, queue, qi, handoff, yielded,
           pending_lines, sentence_log >>

input_vars == << caller, argv_given, file_exists, file, args >>
main_vars == << i, i_bound, calls, stdout, exit_code >>
gen_vars == << gen_pc, opened, pos, line, current_sentences, current_speaker,
               queue, qi, yielded, pending_lines, sentence_log >>

Init ==
    /\ caller \in {"main", "direct"}
    /\ argv_given \in BOOLEAN
    /\ file_exists \in BOOLEAN
    /\ file \in Files
    /\ args \in DirectArgs \cup {DefaultArgs}
    /\ caller = "main" => args = DefaultArgs
    \* a direct caller names an existing file
    /\ caller = "direct" => argv_given /\ file_exists
    \* a file that is not named or does not exist has no content
    /\ ~(argv_given /\ file_exists) => file = <<>>
    /\ ~argv_given => ~file_exists
    /\ main_pc = IF caller = "main" THEN "start" ELSE "loop"
    /\ i = 0
    /\ i_bound = FALSE
    /\ calls = <<>>
    /\ stdout = <<>>
    /\ exit_code = -1
    /\ gen_pc = "new"
    /\ opened = FALSE
    /\ pos = 0
    /\ line = <<>>
    /\ current_sentences = <<>>
    /\ current_speaker = None
    /\ queue = <<>>
    /\ qi = 0
    /\ handoff = <<>>
    /\ yielded = <<>>
    /\ pending_lines = <<>>
    /\ sentence_log = <<>>

(***************************************************************************)
(* generate_chunks_from_file.  The generator runs only while its consumer *)
(* waits in next(): the consumer is in its loop and has taken the last    *)
(* value yielded.                                                          *)
(***************************************************************************)
Resumed == main_pc = "loop" /\ handoff = <<>>

\* lines 162-167: the sentences of one line
LineSentences(text) ==
    LET pieces == SentenceSplit(text)
        stripped == [k \in 1..Len(pieces) |-> Strip(pieces[k])]
    IN  SelectSeq(stripped, LAMBDA x : x # <<>>)

\* the flush of lines 143-148 and 171-176
Flush == build_chunks_from_sentences(current_sentences, args.max_sentences,
                                     args.max_lines, args.max_chars)

\* AppendSentences carrying text across the line break: the first sentence
\* of the line continues the last pending sentence
AppendSentences_Carry(base, base_lines, text, n) ==
    LET new == LineSentences(text)
        merged == IF base # <<>> /\ new # <<>>
                  THEN SubSeq(base, 1, Len(base) - 1)
                       \o << base[Len(base)] \o <<" ">> \o new[1] >>
                       \o Tail(new)
                  ELSE base \o new
        added == IF base # <<>> /\ new # <<>> THEN Tail(new) ELSE new
    IN  /\ current_sentences' = merged
        /\ pending_lines' = base_lines \o [k \in 1..Len(added) |-> n]
        /\ sentence_log' =
               (IF base # <<>> /\ new # <<>>
                THEN SubSeq(sentence_log, 1, Len(sentence_log) - 1)
                     \o << [text |-> merged[Len(base)],
                            line |-> sentence_log[Len(sentence_log)].line] >>
                ELSE sentence_log)
               \o [k \in 1..Len(added) |-> [text |-> added[k], line |-> n]]

\* lines 162-167 on the text of the line numbered n, appended to base
AppendSentences(base, base_lines, text, n) ==
    LET new == LineSentences(text)
    IN  /\ current_sentences' = base \o new
        /\ pending_lines' = base_lines \o [k \in 1..Len(new) |-> n]
        /\ sentence_log' = sentence_log
               \o [k \in 1..Len(new) |-> [text |-> new[k], line |-> n]]

\* TakeLabelled with the test for a label-only line before the assignment
\* of the speaker
TakeLabelled_SkipFirst(base, base_lines, l, n) ==
    LET e == SpeakerMatchEnd(l)
        rest == Strip(DropFirst(l, e))
    IN  IF rest = <<>>
        THEN /\ current_sentences' = base
             /\ pending_lines' = base_lines
             /\ UNCHANGED << current_speaker, sentence_log >>
        ELSE /\ current_speaker' = StripLabelTail(SubSeq(l, 1, e))
             /\ AppendSentences(base, base_lines, rest, n)

\* lines 153-167: the label becomes the speaker, the rest of the line is text
TakeLabelled(base, base_lines, l, n) ==
    LET e == SpeakerMatchEnd(l)
        rest == Strip(DropFirst(l, e))
    IN  /\ current_speaker' = StripLabelTail(SubSeq(l, 1, e))
        /\ IF rest = <<>>
           THEN /\ current_sentences' = base
                /\ pending_lines' = base_lines
                /\ UNCHANGED sentence_log
           ELSE AppendSentences(base, base_lines, rest, n)

\* MustFlush without the flush: the pending sentences stay pending
MustFlush_Never(l) == FALSE

\* MustFlush with a flush on the sentence count as well
MustFlush_Threshold(l) ==
    \/ SpeakerMatchEnd(l) > 0 /\ current_sentences # <<>>
    \/ Len(current_sentences) >= args.max_sentences

\* lines 139-142: a label line with sentences pending flushes them first
MustFlush(l) == SpeakerMatchEnd(l) > 0 /\ current_sentences # <<>>

\* lines 123-129: the first next() opens the file
Gen_Open ==
    /\ Resumed
    /\ gen_pc = "new"
    /\ gen_pc' = "read"
    /\ opened' = TRUE
    /\ UNCHANGED << input_vars, main_pc, main_vars, pos, line,
                    current_sentences, current_speaker, queue, qi, handoff,
                    yielded, pending_lines, sentence_log >>

\* lines 130-167: one line is read and processed up to the next yield
Gen_ReadLine ==
    /\ Resumed
    /\ gen_pc = "read"
    /\ pos < Len(file)
    /\ pos' = pos + 1
    /\ LET l == Strip(file[pos + 1])
       IN  /\ line' = l
           /\ IF l = <<>>
              THEN UNCHANGED << gen_pc, current_sentences, current_speaker,
                                queue, qi, pending_lines, sentence_log >>
              ELSE IF MustFlush(l)
              THEN /\ gen_pc' = "flush_speaker"
                   /\ queue' = Flush
                   /\ qi' = 0
                   /\ UNCHANGED << current_sentences, current_speaker,
                                   pending_lines, sentence_log >>
              ELSE IF SpeakerMatchEnd(l) > 0
              THEN /\ TakeLabelled(current_sentences, pending_lines, l, pos + 1)
                   /\ UNCHANGED << gen_pc, queue, qi >>
              ELSE /\ AppendSentences(current_sentences, pending_lines, l,
                                      pos + 1)
                   /\ UNCHANGED << gen_pc, current_speaker, queue, qi >>
    /\ UNCHANGED << input_vars, main_pc, main_vars, opened, handoff, yielded >>

\* lines 149 and 177: yield chunk, current_speaker
Gen_Yield ==
    /\ Resumed
    /\ gen_pc \in {"flush_speaker", "flush_eof"}
    /\ qi < Len(queue)
    /\ qi' = qi + 1
    /\ LET c == queue[qi + 1]
           last == Min(c.grp + args.max_sentences, Len(current_sentences))
       IN  /\ handoff' = << [text |-> c.text, speaker |-> current_speaker] >>
           /\ yielded' = Append(yielded,
                  [text    |-> c.text,
                   speaker |-> current_speaker,
                   grp     |-> c.grp,
                   src     |-> SubSeq(current_sentences, c.grp + 1, last),
                   lines   |-> {pending_lines[k] : k \in (c.grp + 1)..last}])
    /\ UNCHANGED << input_vars, main_pc, main_vars, gen_pc, opened, pos, line,
                    current_sentences, current_speaker, queue,
                    pending_lines, sentence_log >>

\* lines 150-167: after the flush the label line is processed
Gen_AfterSpeakerFlush ==
    /\ Resumed
    /\ gen_pc = "flush_speaker"
    /\ qi = Len(queue)
    /\ gen_pc' = "read"
    /\ queue' = <<>>
    /\ qi' = 0
    /\ TakeLabelled(<<>>, <<>>, line, pos)
    /\ UNCHANGED << input_vars, main_pc, main_vars, opened, pos, line, handoff,
                    yielded >>

\* lines 169-176: the end of the file
Gen_EndOfFile ==
    /\ Resumed
    /\ gen_pc = "read"
    /\ pos = Len(file)
    /\ IF current_sentences # <<>>
       THEN /\ gen_pc' = "flush_eof"
            /\ queue' = Flush
            /\ qi' = 0
       ELSE /\ gen_pc' = "done"
            /\ UNCHANGED << queue, qi >>
    /\ UNCHANGED << input_vars, main_pc, main_vars, opened, pos, line,
                    current_sentences, current_speaker, handoff, yielded,
                    pending_lines, sentence_log >>

\* line 177: the last flush is exhausted and the generator returns
Gen_Return ==
    /\ Resumed
    /\ gen_pc = "flush_eof"
    /\ qi = Len(queue)
    /\ gen_pc' = "done"
    /\ UNCHANGED << input_vars, main_pc, main_vars, opened, pos, line,
                    current_sentences, current_speaker, queue, qi, handoff,
                    yielded, pending_lines, sentence_log >>

(***************************************************************************)
(* main, and the loop of a direct caller                                   *)
(***************************************************************************)
\* Main_CheckArgs without the test of os.path.isfile
Main_CheckArgs_NoFileTest ==
    /\ caller = "main"
    /\ main_pc = "start"
    /\ IF ~argv_given
       THEN /\ stdout' = Append(stdout, [msg |-> "usage", n |-> 0])
            /\ exit_code' = 1
            /\ main_pc' = "exited"
       ELSE /\ main_pc' = "loop"
            /\ UNCHANGED << stdout, exit_code >>
    /\ UNCHANGED << input_vars, i, i_bound, calls, gen_vars, handoff >>

\* lines 213-220
Main_CheckArgs ==
    /\ caller = "main"
    /\ main_pc = "start"
    /\ IF ~argv_given
       THEN /\ stdout' = Append(stdout, [msg |-> "usage", n |-> 0])
            /\ exit_code' = 1
            /\ main_pc' = "exited"
       ELSE IF ~file_exists
       THEN /\ stdout' = Append(stdout, [msg |-> "file not found", n |-> 0])
            /\ exit_code' = 1
            /\ main_pc' = "exited"
       ELSE /\ main_pc' = "loop"
            /\ UNCHANGED << stdout, exit_code >>
    /\ UNCHANGED << input_vars, i, i_bound, calls, gen_vars, handoff >>

\* Main_CreateCue with enumerate counting from 0
Main_CreateCue_FromZero ==
    /\ caller = "main"
    /\ main_pc = "loop"
    /\ handoff # <<>>
    /\ i' = i + 1
    /\ i_bound' = TRUE
    /\ stdout' = Append(stdout, [msg |-> "creating cue", n |-> i])
    /\ calls' = Append(calls, [op      |-> "create_text_cue",
                               n       |-> i,
                               chunk   |-> handoff[1].text,
                               speaker |-> handoff[1].speaker])
    /\ handoff' = <<>>
    /\ UNCHANGED << input_vars, main_pc, exit_code, gen_vars >>

\* lines 236-243: enumerate binds i, the cue is printed and created
Main_CreateCue ==
    /\ caller = "main"
    /\ main_pc = "loop"
    /\ handoff # <<>>
    /\ i' = i + 1
    /\ i_bound' = TRUE
    /\ stdout' = Append(stdout, [msg |-> "creating cue", n |-> i + 1])
    /\ calls' = Append(calls, [op      |-> "create_text_cue",
                               n       |-> i + 1,
                               chunk   |-> handoff[1].text,
                               speaker |-> handoff[1].speaker])
    /\ handoff' = <<>>
    /\ UNCHANGED << input_vars, main_pc, exit_code, gen_vars >>

\* lines 245-246
Main_CreateFadeGroups ==
    /\ caller = "main"
    /\ main_pc = "loop"
    /\ gen_pc = "done"
    /\ stdout' = Append(stdout, [msg |-> "creating fade groups", n |-> 0])
    /\ calls' = Append(calls, [op |-> "create_fadegroups", n |-> 0,
                               chunk |-> <<>>, speaker |-> None])
    /\ main_pc' = "report"
    /\ UNCHANGED << input_vars, i, i_bound, exit_code, gen_vars, handoff >>

\* line 248: the f-string reads i, which is unbound when the loop never ran
Main_Report ==
    /\ caller = "main"
    /\ main_pc = "report"
    /\ IF i_bound
       THEN /\ stdout' = Append(stdout, [msg |-> "all cues created", n |-> i])
            /\ main_pc' = "done"
       ELSE /\ main_pc' = "UnboundLocalError"
            /\ UNCHANGED stdout
    /\ UNCHANGED << input_vars, i, i_bound, calls, exit_code, gen_vars,
                    handoff >>

\* a direct caller takes the value yielded and asks for the next one
Direct_Take ==
    /\ caller = "direct"
    /\ main_pc = "loop"
    /\ handoff # <<>>
    /\ handoff' = <<>>
    /\ UNCHANGED << input_vars, main_pc, main_vars, gen_vars >>

Next ==
    \/ Gen_Open
    \/ Gen_ReadLine
    \/ Gen_Yield
    \/ Gen_AfterSpeakerFlush
    \/ Gen_EndOfFile
    \/ Gen_Return
    \/ Main_CheckArgs
    \/ Main_CreateCue
    \/ Main_CreateFadeGroups
    \/ Main_Report
    \/ Direct_Take

Spec == Init /\ [][Next]_vars

(***************************************************************************)
(* Properties                                                              *)
(***************************************************************************)
Flushing == gen_pc \in {"flush_speaker", "flush_eof"}

\* str.split(sep) for a one-character sep
RECURSIVE SplitOn(_, _)
SplitOn(s, sep) ==
    LET k == PrefixLen(s, {c \in {s[j] : j \in 1..Len(s)} : c # sep})
    IN  IF k = Len(s) THEN << s >>
        ELSE << SubSeq(s, 1, k) >> \o SplitOn(DropFirst(s, k + 1), sep)

\* str.split(): the words of a text
RECURSIVE Words(_)
Words(s) ==
    LET t == LStrip(s)
        k == PrefixLen(t, {c \in {t[j] : j \in 1..Len(t)} : c \notin Whitespace})
    IN  IF t = <<>> THEN <<>>
        ELSE << SubSeq(t, 1, k) >> \o Words(DropFirst(t, k))

\* is a a contiguous part of b?
IsInfix(a, b) ==
    \E d \in 0..(Len(b) - Len(a)) : SubSeq(b, d + 1, d + Len(a)) = a

Texts(cues) == [k \in 1..Len(cues) |-> cues[k].text]

IsLabelLine(n) == SpeakerMatchEnd(Strip(file[n])) > 0

\* C1: every cue yielded has at most max_lines_per_chunk lines, and each of
\* its lines has at most max_chars_per_line characters unless the line is a
\* single word longer than that.
LineWithinWidth(l) ==
    \/ Len(l) <= args.max_chars
    \/ \A j \in 1..Len(l) : l[j] \notin Whitespace

C1_CueLimits ==
    \A k \in 1..Len(yielded) :
        LET ls == SplitOn(yielded[k].text, "\n")
        IN  /\ Len(ls) <= args.max_lines
            /\ \A n \in 1..Len(ls) : LineWithinWidth(ls[n])

\* a group was cut into several cues, the first one full, with a line that
\* holds two words and a line that is a word wider than the width
C1_Witness ==
    \E k \in 1..(Len(yielded) - 1) :
        LET ls == SplitOn(yielded[k].text, "\n")
        IN  /\ yielded[k + 1].grp = yielded[k].grp
            /\ yielded[k + 1].lines = yielded[k].lines
            /\ Len(ls) = args.max_lines
            /\ Len(ls) >= 2
            /\ \E n \in 1..Len(ls) : Len(ls[n]) > args.max_chars
            /\ \E n \in 1..Len(ls) : Len(Words(ls[n])) >= 2

\* C2: a cue holds only text read while one speaker label was active and is
\* tagged with that label, the last label line at or before its text (None
\* when there is none); no label line lies inside the text of a cue, so the
\* sentences pending at a label line are flushed under the previous speaker.
RECURSIVE ActiveSpeakerAt(_)
ActiveSpeakerAt(n) ==
    IF n = 0 THEN None
    ELSE LET l == Strip(file[n])
         IN  IF IsLabelLine(n)
             THEN StripLabelTail(SubSeq(l, 1, SpeakerMatchEnd(l)))
             ELSE ActiveSpeakerAt(n - 1)

C2_OneSpeakerPerCue ==
    \A k \in 1..Len(yielded) :
        LET y == yielded[k]
        IN  /\ y.lines # {}
            /\ \A n \in y.lines : y.speaker = ActiveSpeakerAt(n)
            /\ \A a \in y.lines, b \in y.lines :
                   \A n \in (a + 1)..b : ~IsLabelLine(n)

\* a cue of one speaker with text of two lines was flushed at the label line
\* of another speaker, whose cue follows
C2_Witness ==
    \E k \in 1..Len(yielded), j \in 1..Len(yielded) :
        /\ k < j
        /\ Cardinality(yielded[k].lines) >= 2
        /\ yielded[k].speaker # None
        /\ yielded[j].speaker # None
        /\ yielded[j].speaker # yielded[k].speaker

\* C5: a cue derives from at most max_sentences_per_chunk sentences: the
\* pending sentences are taken in order in consecutive groups of
\* max_sentences_per_chunk, the last one possibly shorter, each group is
\* wrapped on its own, and the cues of a group hold the text of that group
\* and of no other.
GroupText(g) ==
    Join(SubSeq(current_sentences, g + 1,
                Min(g + args.max_sentences, Len(current_sentences))), <<" ">>)

C5_GroupsOfMaxSentences ==
    /\ \A k \in 1..Len(yielded) :
           /\ Len(yielded[k].src) \in 1..args.max_sentences
           /\ IsInfix(Words(yielded[k].text),
                      Words(Join(yielded[k].src, <<" ">>)))
    /\ Flushing =>
           /\ \A k \in 1..(Len(queue) - 1) : queue[k].grp <= queue[k + 1].grp
           /\ \A g \in 0..(Len(current_sentences) - 1) :
                  LET cues == SelectSeq(queue, LAMBDA c : c.grp = g)
                  IN  IF g % args.max_sentences = 0
                      THEN Words(Join(Texts(cues), <<" ">>)) = Words(GroupText(g))
                      ELSE cues = <<>>

\* a flush of more sentences than one group holds, the last group shorter,
\* all its cues yielded
C5_Witness ==
    /\ Flushing
    /\ Len(current_sentences) > args.max_sentences
    /\ Len(current_sentences) % args.max_sentences # 0
    /\ qi = Len(queue)
    /\ \E k \in 1..(Len(queue) - 1) : queue[k].grp # queue[k + 1].grp

\* C6: under main, create_text_cue is invoked once per cue of the stream, in
\* stream order, with the cue's text and speaker and the numbers 1, 2, 3,
\* ...; create_fadegroups is invoked once, after the last create_text_cue.
CueCalls == SelectSeq(calls, LAMBDA c : c.op = "create_text_cue")
FadeCalls == SelectSeq(calls, LAMBDA c : c.op = "create_fadegroups")

C6_CallsFollowStream ==
    caller = "main" =>
        /\ Len(CueCalls) + Len(handoff) = Len(yielded)
        /\ \A k \in 1..Len(CueCalls) :
               /\ CueCalls[k].n = k
               /\ CueCalls[k].chunk = yielded[k].text
               /\ CueCalls[k].speaker = yielded[k].speaker
        /\ Len(FadeCalls) <= 1
        /\ \A k \in 1..Len(calls) :
               calls[k].op = "create_fadegroups" =>
                   /\ k = Len(calls)
                   /\ gen_pc = "done"
                   /\ Len(CueCalls) = Len(yielded)
        /\ main_pc \in {"report", "done", "UnboundLocalError"}
               => Len(FadeCalls) = 1
        /\ main_pc \in {"start", "loop", "exited"} => FadeCalls = <<>>

\* main has finished a run of three or more cues of two speakers
C6_Witness ==
    /\ caller = "main"
    /\ main_pc = "done"
    /\ Len(CueCalls) >= 3
    /\ \E k \in 1..Len(CueCalls) : CueCalls[k].speaker # CueCalls[1].speaker
    /\ calls[Len(calls)].op = "create_fadegroups"

\* C7: a label-only line makes its label the active speaker, adds no
\* sentence and yields no cue of its own; a line without a label leaves the
\* active speaker as it is, so its text goes to the last label.
LabelOnlyLine(l) ==
    /\ Len(l) >= 2
    /\ l[Len(l)] = ":"
    /\ \A j \in 1..(Len(l) - 1) : l[j] \in LabelChars

\* the step that finishes the processing of line pos'
LineProcessed ==
    /\ gen_pc' = "read"
    /\ pos' = pos + 1 \/ gen_pc = "flush_speaker"

C7_LabelOnlyLine ==
    [][LineProcessed =>
           LET l == Strip(file[pos'])
           IN  /\ LabelOnlyLine(l) =>
                      /\ current_speaker' = Strip(SubSeq(l, 1, Len(l) - 1))
                      /\ current_sentences' = <<>>
                      /\ sentence_log' = sentence_log
                      /\ yielded' = yielded
               /\ ~IsLabelLine(pos') => current_speaker' = current_speaker]_vars

\* a label-only line came after text of another speaker, and the text of the
\* unlabelled line after it is pending under its label
C7_Witness ==
    /\ gen_pc = "read"
    /\ pos = 3
    /\ LabelOnlyLine(Strip(file[2]))
    /\ ~IsLabelLine(3)
    /\ yielded # <<>>
    /\ yielded[1].speaker # <<"A">>
    /\ current_speaker = <<"A">>
    /\ current_sentences # <<>>
    /\ \A k \in 1..Len(pending_lines) : pending_lines[k] = 3

\* C8: without an argument, or with the name of a file that does not exist,
\* main prints a message and exits with code 1; no cue and no fade group is
\* created and the input is never opened.
C8_BadArgsExit ==
    (caller = "main" /\ ~(argv_given /\ file_exists)) =>
        /\ calls = <<>>
        /\ ~opened
        /\ gen_pc = "new"
        /\ main_pc \in {"start", "exited"}
        /\ main_pc = "exited" =>
               /\ exit_code = 1
               /\ Len(stdout) = 1
               /\ stdout[1].msg \in {"usage", "file not found"}

\* main has exited because the file named does not exist
C8_Witness ==
    /\ caller = "main"
    /\ argv_given
    /\ ~file_exists
    /\ main_pc = "exited"
    /\ exit_code = 1

\* C3: the words of the cues, in the order of the stream, are the words of
\* the input with the speaker labels removed, punctuation included.
RECURSIVE InputWords(_)
InputWords(n) ==
    IF n = 0 THEN <<>>
    ELSE LET l == Strip(file[n])
         IN  InputWords(n - 1) \o Words(DropFirst(l, SpeakerMatchEnd(l)))

C3_TextPreserved ==
    gen_pc = "done" =>
        Words(Join(Texts(yielded), <<" ">>)) = InputWords(Len(file))

\* C4: with an empty file, or one of blank and label-only lines alone, main
\* ends normally: no cue, the fade groups created, a final count of 0.
NoTextInFile ==
    \A n \in 1..Len(file) :
        Strip(file[n]) = <<>> \/ LabelOnlyLine(Strip(file[n]))

C4_EmptyInputEndsCleanly ==
    (caller = "main" /\ argv_given /\ file_exists /\ NoTextInFile) =>
        /\ yielded = <<>>
        /\ main_pc \in {"start", "loop", "report", "done"}
        /\ main_pc = "done" =>
               /\ Len(FadeCalls) = 1
               /\ stdout[Len(stdout)] = [msg |-> "all cues created", n |-> 0]

\* C9 as claimed: when the next line is read fewer than
\* max_sentences_per_chunk sentences are pending.
C9_FlushedOnThreshold ==
    (gen_pc = "read" /\ pos < Len(file)) =>
        Len(current_sentences) < args.max_sentences

\* C9 as the code has it: the pending sentences are flushed only at a label
\* line and at the end of the input, never on their number; a line without
\* a label only appends to them; and a line is read only when every cue of
\* the flush before it has been yielded and taken.
IsPrefix(a, b) == Len(a) <= Len(b) /\ SubSeq(b, 1, Len(a)) = a

C9_FlushedOnlyOnLabelOrEnd ==
    [][/\ (~Flushing /\ Flushing') =>
              \/ pos' = pos + 1 /\ IsLabelLine(pos')
              \/ pos' = pos /\ pos = Len(file)
       /\ ~IsPrefix(current_sentences, current_sentences') =>
              /\ gen_pc = "flush_speaker"
              /\ qi = Len(queue)
       /\ pos' # pos =>
              /\ handoff = <<>>
              /\ ~Flushing
       /\ (pos' = pos + 1 /\ ~IsLabelLine(pos')) =>
              /\ ~Flushing'
              /\ IsPrefix(current_sentences, current_sentences')
              /\ yielded' = yielded]_vars

\* a file without labels is read to its end, nothing has been yielded, and
\* more than two groups of sentences are pending
C9_Witness ==
    /\ gen_pc = "read"
    /\ pos = Len(file)
    /\ \A n \in 1..Len(file) : ~IsLabelLine(n)
    /\ yielded = <<>>
    /\ Len(current_sentences) > 2 * args.max_sentences

\* C10 as claimed: a line break alone is no sentence boundary: where two
\* consecutive sentences of one speaker come from different lines, the
\* line of the first ends with a sentence terminator.
EndsSentence(l) ==
    /\ l # <<>>
    /\ l[Len(l)] \in Terminators
    /\ Len(l) >= 2 => l[Len(l) - 1] # "."

C10_CarriedAcrossLines ==
    \A k \in 1..(Len(sentence_log) - 1) :
        LET a == sentence_log[k].line
            b == sentence_log[k + 1].line
        IN  (a # b /\ \A n \in (a + 1)..b : ~IsLabelLine(n)) =>
                EndsSentence(Strip(file[a]))

\* C10 as the code has it: every line is split on its own: a sentence lies
\* within one line, and the text after the last boundary of a line is a
\* sentence of its own, so a line break always ends a sentence.
IsSuffix(a, b) ==
    Len(a) <= Len(b) /\ SubSeq(b, Len(b) - Len(a) + 1, Len(b)) = a

LinesProcessed == IF gen_pc = "flush_speaker" THEN pos - 1 ELSE pos

C10_SentencesPerLine ==
    /\ \A k \in 1..Len(sentence_log) :
           /\ sentence_log[k].text # <<>>
           /\ IsInfix(sentence_log[k].text, Strip(file[sentence_log[k].line]))
    /\ \A k \in 1..(Len(sentence_log) - 1) :
           sentence_log[k].line <= sentence_log[k + 1].line
    /\ \A n \in 1..LinesProcessed :
           LET l == Strip(file[n])
           IN  (l # <<>> /\ ~LabelOnlyLine(l)) =>
                   \E k \in 1..Len(sentence_log) :
                       /\ sentence_log[k].line = n
                       /\ IsSuffix(sentence_log[k].text, l)

\* two lines of one speaker, the first without a terminator at its end, have
\* given two sentences that one cue holds
C10_Witness ==
    \E k \in 1..(Len(sentence_log) - 1) :
        LET a == sentence_log[k].line
            b == sentence_log[k + 1].line
        IN  /\ a # b
            /\ \A n \in (a + 1)..b : ~IsLabelLine(n)
            /\ ~EndsSentence(Strip(file[a]))
            /\ \E j \in 1..Len(yielded) : {a, b} \subseteq yielded[j].lines

====
